---------------------------- MODULE Spec2Model ----------------------------
(***************************************************************************)
(* Model of src/main.py: the header mapper (create_header_map), the        *)
(* section scanner (parse_file_to_sections) and the export loop of         *)
(* WorkerThread.run.                                                       *)
(*                                                                         *)
(* TEXT.  A Python str is modelled as a sequence of pieces; the str is the *)
(* concatenation of its pieces.  The pieces are chosen so that every       *)
(* keyword of the source starts and ends on a piece boundary, hence        *)
(* `kw in s` is "the pieces of kw occur contiguously in s".  The source's  *)
(* Chinese literals are written in pinyin, since the tools read ASCII      *)
(* strings only:                                                           *)
(*   pinming 品名        wuliao 物料      mingcheng 名称    guige 规格     *)
(*   tuhao 图号          xinghao 型号     danwei 单位       caigou 采购    *)
(*   shuliang 数量       baojia 报价      danjia 单价       jine 金额      *)
(*   beizhu 备注         bentidanzhong 本体单重             xunjia 询价    *)
(*   ren 人              shuoming 说明    daigou 代购       changshang 厂商*)
(*   xuhao 序号          wu 无            wu_trad 無        weizhidanhao 未知单号 *)
(*   gongdanxiangqing 工单详情             <fwcomma> the full-width ，     *)
(*   ge_trad 個   tai_trad 臺   tai 台   ge 个   gongjin 公斤  qianke 千克 *)
(***************************************************************************)
EXTENDS Integers, Sequences, FiniteSets, TLC

\* --------------------------------------------------------------- variables

VARIABLES
    \* SpecHeader: one call of create_header_map
    hdr_row, hdr_map, hdr_pc,
    \* Spec: one call of parse_file_to_sections
    grid, pc, r, global_id, sections, heap, current_section, hmaps, header_map,
    opened_at, implicit, rec_rows,
    \* SpecRun: one execution of WorkerThread.run, with stop() beside it
    files, run_pc, file_idx, abort, run_sections, section, row_iter, seen_rows, ws,
    curr_row, start_row, written_count, emitted, saved, encountered,
    frame_dtype, sec_no,
    \* the interface: whether the run button is enabled
    btn_run

hvars == <<hdr_row, hdr_map, hdr_pc>>
svars == <<grid, pc, r, global_id, sections, heap, current_section, hmaps,
           header_map, opened_at, implicit, rec_rows>>
rvars == <<files, run_pc, file_idx, abort, run_sections, section, row_iter, seen_rows,
           ws, curr_row, start_row, written_count, emitted, saved, encountered,
           frame_dtype, sec_no, btn_run>>
vars == <<hvars, svars, rvars>>

\* ------------------------------------------------------------------ bounds

\* Number of cells of the row handed to create_header_map in SpecHeader.
HdrCols == 3
\* Largest number of rows of a grid in Spec.
MaxRows == 4
\* Largest number of data rows of a grid in SpecAmount.
AmtRows == 2

\* Largest number of files of a batch in SpecRun.
MaxFiles == 2

\* -------------------------------------------------------------------- text

Min(S) == CHOOSE x \in S : \A y \in S : x <= y
Max(S) == CHOOSE x \in S : \A y \in S : x >= y

\* The empty str.
Empty == << >>

\* `kw in t` for str kw, t (kw is never empty in the source).
Contains(t, kw) ==
    \E i \in 1..(Len(t) - Len(kw) + 1) : SubSeq(t, i, i + Len(kw) - 1) = kw

\* str.lower() on one piece; pieces without cased letters are unchanged.
LowerSym(s) ==
    CASE s = "Unit" -> "unit"
      [] s = "Price" -> "price"
      [] s = "Material" -> "material"
      [] s = "Name" -> "name"
      [] s = "None" -> "none"
      [] s = "NULL" -> "null"
      [] s = "XIDP-A1234567890" -> "xidp-a1234567890"
      [] s = "XIDP-B0987654321" -> "xidp-b0987654321"
      [] OTHER -> s

\* str.lower()
Lower(t) == [i \in 1..Len(t) |-> LowerSym(t[i])]

\* str.strip(): leading and trailing whitespace removed.
Strip(t) ==
    LET keep == {i \in 1..Len(t) : t[i] # " "}
    IN  IF keep = {} THEN Empty ELSE SubSeq(t, Min(keep), Max(keep))

\* " ".join(cells)
RECURSIVE JoinFrom(_, _)
JoinFrom(cells, i) ==
    IF i > Len(cells) THEN Empty
    ELSE IF i = Len(cells) THEN cells[i]
    ELSE cells[i] \o <<" ">> \o JoinFrom(cells, i + 1)

Join(cells) == JoinFrom(cells, 1)

\* --------------------------------------------------- OrderProcessor.__init__

standard_columns ==
    <<"xuhao", "pinming", "guige/tuhao", "danwei", "shuliang", "danjia", "jine",
      "beizhu/bentidanzhong">>

\* The keys of mapping_keywords, in the dict's (insertion) order.
FieldOrder ==
    <<"pinming", "guige/tuhao", "danwei", "shuliang", "danjia", "jine",
      "beizhu/bentidanzhong", "xunjiaren", "daigouchangshang">>

mapping_keywords(std_key) ==
    CASE std_key = "pinming" ->
           {<<"pinming">>, <<"wuliao", "mingcheng">>, <<"product", " ", "name">>,
            <<"material", " ", "name">>}
      [] std_key = "guige/tuhao" ->
           {<<"guige">>, <<"tuhao">>, <<"wuliao", "guige">>, <<"spec">>,
            <<"spec", "ification">>, <<"xinghao">>}
      [] std_key = "danwei" ->
           {<<"danwei">>, <<"unit">>, <<"uom">>, <<"caigou", "danwei">>}
      [] std_key = "shuliang" ->
           {<<"shuliang">>, <<"qty">>, <<"quantity">>, <<"caigou", "shuliang">>,
            <<"baojia", "shuliang">>}
      [] std_key = "danjia" ->
           {<<"danjia">>, <<"price">>, <<"unit", " ", "price">>, <<"baojia", "danjia">>}
      [] std_key = "jine" ->
           {<<"jine">>, <<"total">>, <<"amount">>}
      [] std_key = "beizhu/bentidanzhong" ->
           {<<"beizhu">>, <<"remarks">>, <<"bentidanzhong">>,
            <<"item no.", " ", "remarks">>, <<"xunjia", "shuoming">>}
      [] std_key = "xunjiaren" ->
           {<<"xunjia", "ren">>, <<"inquirer">>}
      [] std_key = "daigouchangshang" ->
           {<<"daigou", "changshang">>, <<"purchasing", " ", "agent">>, <<"daigou">>}

\* The pieces that match order_no_pattern, XIDP-[A-Z]?\d{10,12} with re.I.
\* ("XIDP-123" and "2024-03-15" are pieces that do not.)
OrderTokens ==
    {"XIDP-A1234567890", "XIDP-B0987654321", "xidp-a1234567890"}

\* order_no_pattern.search(s): the leftmost match, None (here NoMatch) if none.
NoMatch == "<None>"

order_no_search(s) ==
    LET hits == {i \in 1..Len(s) : s[i] \in OrderTokens}
    IN  IF hits = {} THEN NoMatch ELSE s[Min(hits)]

\* ------------------------------------------------------- create_header_map

\* A dict with no key.
EmptyMap == [k \in {} |-> 0]

\* d[k] = v
Put(d, k, v) == [x \in (DOMAIN d) \cup {k} |-> IF x = k THEN v ELSE d[x]]

\* any(kw in low_val for kw in keywords)
AnyKeyword(std_key, low_val) ==
    \E kw \in mapping_keywords(std_key) : Contains(low_val, kw)

\* The inner loop without the test `std_key not in h_map`: a later cell with
\* a keyword takes the field over.
ScanKeys_Overwrite(h_map, low_val, idx) ==
    LET fields == {FieldOrder[k] : k \in 1..Len(FieldOrder)}
        hit == {std_key \in fields : AnyKeyword(std_key, low_val)}
    IN  [std_key \in (DOMAIN h_map) \cup hit |->
            IF std_key \in hit THEN idx ELSE h_map[std_key]]

\* The inner loop over mapping_keywords.items() for one cell (idx, low_val):
\* every field not yet in h_map with a keyword in the cell gets idx.  The
\* loop has no break, and a field's test reads only its own entry of h_map, so
\* the order of the fields does not change the result.
ScanKeys(h_map, low_val, idx) ==
    LET fields == {FieldOrder[k] : k \in 1..Len(FieldOrder)}
        hit == {std_key \in fields :
                   std_key \notin DOMAIN h_map /\ AnyKeyword(std_key, low_val)}
    IN  [std_key \in (DOMAIN h_map) \cup hit |->
            IF std_key \in hit THEN idx ELSE h_map[std_key]]

\* The outer loop over enumerate(row_values); idx is 0-based as in the source.
RECURSIVE ScanCells(_, _, _)
ScanCells(h_map, row_values, i) ==
    IF i > Len(row_values) THEN h_map
    ELSE ScanCells(ScanKeys(h_map, Lower(row_values[i]), i - 1), row_values, i + 1)

create_header_map(row_values) == ScanCells(EmptyMap, row_values, 1)


\* -------------------------------------------------------------- safe_float

\* Numbers are held in thousandths: the float f is the integer f * Scale.
\* Numeric cell texts are written one character per piece, with at most
\* three fractional digits.
Scale == 10 * 10 * 10

Digits == {"0", "1", "2", "3", "4", "5", "6", "7", "8", "9"}

DigitVal(c) ==
    CASE c = "0" -> 0 [] c = "1" -> 1 [] c = "2" -> 2 [] c = "3" -> 3 [] c = "4" -> 4
      [] c = "5" -> 5 [] c = "6" -> 6 [] c = "7" -> 7 [] c = "8" -> 8 [] c = "9" -> 9

RECURSIVE DigitsVal(_)
DigitsVal(ds) ==
    IF ds = Empty THEN 0
    ELSE 10 * DigitsVal(SubSeq(ds, 1, Len(ds) - 1)) + DigitVal(ds[Len(ds)])

\* s.replace(",", "")
RECURSIVE RemoveCommas(_)
RemoveCommas(s) ==
    IF s = Empty THEN Empty
    ELSE IF Head(s) = "," THEN RemoveCommas(Tail(s))
    ELSE <<Head(s)>> \o RemoveCommas(Tail(s))

\* Whether float(s) succeeds, for s over digits, ".", "-", "+" and other pieces:
\* an optional sign, digits with at most one point and at least one digit.
FloatParses(s) ==
    LET body == IF s # Empty /\ s[1] \in {"-", "+"} THEN Tail(s) ELSE s
        dots == {i \in 1..Len(body) : body[i] = "."}
    IN  /\ \A i \in 1..Len(body) : body[i] \in Digits \cup {"."}
        /\ Cardinality(dots) <= 1
        /\ \E i \in 1..Len(body) : body[i] \in Digits

\* float(s) in thousandths, for s with FloatParses(s).
FloatVal(s) ==
    LET neg == s[1] = "-"
        body == IF s[1] \in {"-", "+"} THEN Tail(s) ELSE s
        dots == {i \in 1..Len(body) : body[i] = "."}
        dot == IF dots = {} THEN Len(body) + 1 ELSE Min(dots)
        ip == SubSeq(body, 1, dot - 1)
        fp == SubSeq(body, dot + 1, Len(body))
        fp3 == SubSeq(fp \o <<"0", "0", "0">>, 1, 3)
        mag == DigitsVal(ip) * Scale + DigitsVal(fp3)
    IN  IF neg THEN 0 - mag ELSE mag

\* Python's None, for dict.get() of a missing key.
None == <<"<None>">>

safe_float(x) ==
    IF x = None \/ Strip(x) = Empty THEN 0
    ELSE LET s == RemoveCommas(Strip(x))
         IN  IF FloatParses(s) THEN FloatVal(s) ELSE 0

\* round(v / den, 2) in thousandths, for an integer v and den a multiple of
\* 100: the nearest hundredth, an exact decimal tie going to the even one.
Round2(v, den) ==
    LET unit == den \div 100
        q == v \div unit
        rem == v % unit
        h == IF 2 * rem > unit THEN q + 1
             ELSE IF 2 * rem < unit THEN q
             ELSE IF q % 2 = 0 THEN q ELSE q + 1
    IN  h * 10

\* float.is_integer()
is_integer(f) == f % Scale = 0

\* A Python number: an int n is <<"int", n>>, a float f is <<"float", f * Scale>>.
\* Line 137: the quantity kept in a record is an int when the float is whole.
int_or_float(qty) ==
    IF is_integer(qty) THEN <<"int", qty \div Scale>> ELSE <<"float", qty>>

DigitChar(d) ==
    CASE d = 0 -> "0" [] d = 1 -> "1" [] d = 2 -> "2" [] d = 3 -> "3" [] d = 4 -> "4"
      [] d = 5 -> "5" [] d = 6 -> "6" [] d = 7 -> "7" [] d = 8 -> "8" [] d = 9 -> "9"

\* The decimal digits of a natural number.
RECURSIVE NatText(_)
NatText(n) ==
    IF n < 10 THEN <<DigitChar(n)>>
    ELSE NatText(n \div 10) \o <<DigitChar(n % 10)>>

\* The fractional digits of a float with fr thousandths: trailing zeros are
\* dropped and one digit always stays ("0", "5", "25", "125").
FracText(fr) ==
    IF fr % 100 = 0 THEN <<DigitChar(fr \div 100)>>
    ELSE IF fr % 10 = 0 THEN <<DigitChar(fr \div 100), DigitChar((fr \div 10) % 10)>>
    ELSE <<DigitChar(fr \div 100), DigitChar((fr \div 10) % 10), DigitChar(fr % 10)>>

\* str() of a Python number, one character per piece: "10" for the int 10,
\* "10.0" for the float 10.0, "2.5" for the float 2.5.
str_number(v) ==
    LET mag == IF v[2] < 0 THEN 0 - v[2] ELSE v[2]
        sign == IF v[2] < 0 THEN <<"-">> ELSE Empty
    IN  IF v[1] = "int" THEN sign \o NatText(mag)
        ELSE sign \o NatText(mag \div Scale) \o <<".">> \o FracText(mag % Scale)

\* ---------------------------------------------------------- normalize_unit

\* UNIT_MAP.items(), in the dict's order.
UNIT_MAP ==
    << <<<<"ge_trad">>, <<"ge">>>>,
       <<<<"ge_trad", "/", "pcs">>, <<"ge">>>>,
       <<<<"tai_trad">>, <<"tai">>>>,
       <<<<"tai_trad", "/", "tai">>, <<"tai">>>>,
       <<<<"gongjin">>, <<"k", "g">>>>,
       <<<<"qianke">>, <<"k", "g">>>>,
       <<<<"g">>, <<"g">>>>,
       <<<<"gongjin", "/", "gongjin">>, <<"k", "g">>>> >>

normalize_unit(u) ==
    LET hits == {i \in 1..Len(UNIT_MAP) : Contains(u, UNIT_MAP[i][1])}
    IN  IF hits = {} THEN u ELSE UNIT_MAP[Min(hits)][2]

\* --------------------------------------------------------- map_row_to_std

map_row_to_std(row_values, h_map) ==
    LET keys == {k \in DOMAIN h_map : h_map[k] < Len(row_values)}
    IN  [k \in keys |->
            LET val == row_values[h_map[k] + 1]
            IN  IF k = "danwei" THEN normalize_unit(val) ELSE val]

\* dict.get(key, default)
Get(d, key, default) == IF key \in DOMAIN d THEN d[key] ELSE default

\* ------------------------------------------------- parse_file_to_sections

\* The scanner's locals are held in a record st:
\*   sections         the result list, of references to section dicts
\*   heap             the section dicts created so far; a reference is an
\*                    index into heap, and 0 is Python's None
\*   current_section  a reference, or 0
\*   hmaps            the h_map dicts create_header_map has returned
\*   header_map       a reference into hmaps, or 0
\* and three history components that the source does not hold:
\*   opened_at[s]     the row (1-based) whose scan created section s
\*   implicit[s]      whether s was created at line 122 (no order-number row)
\*   rec_rows[s]      the rows that produced the records of s, in order
InitScan ==
    [sections |-> <<>>, heap |-> <<>>, current_section |-> 0,
     hmaps |-> <<>>, header_map |-> 0,
     opened_at |-> <<>>, implicit |-> <<>>, rec_rows |-> <<>>]

\* "未知单号"
UnknownId == "weizhidanhao"

\* The loop of lines 79-84 without its break: the last order number wins.
global_id_scan_NoBreak(df) ==
    LET hits == {i \in 1..Len(df) : order_no_search(Join(df[i])) # NoMatch}
    IN  IF hits = {} THEN UnknownId ELSE order_no_search(Join(df[Max(hits)]))

\* Lines 78-84: the first row, from the top, whose text holds an order number
\* gives global_id; the loop breaks there.
global_id_scan(df) ==
    LET hits == {i \in 1..Len(df) : order_no_search(Join(df[i])) # NoMatch}
    IN  IF hits = {} THEN UnknownId ELSE order_no_search(Join(df[Min(hits)]))

\* Line 91: every cell stripped.
StripRow(raw) == [c \in 1..Len(raw) |-> Strip(raw[c])]

\* The test of line 95 with `or` for `and`.
IsHeaderRow_Or(row_str) ==
    \/ {k \in {<<"pinming">>, <<"wuliao", "mingcheng">>, <<"guige">>} :
           Contains(row_str, k)} # {}
    \/ {k \in {<<"shuliang">>, <<"danjia">>} : Contains(row_str, k)} # {}

\* Line 95: the header-row test on the row's text (case-sensitive).
IsHeaderRow(row_str) ==
    /\ {k \in {<<"pinming">>, <<"wuliao", "mingcheng">>, <<"guige">>} :
           Contains(row_str, k)} # {}
    /\ {k \in {<<"shuliang">>, <<"danjia">>} : Contains(row_str, k)} # {}

\* The pieces that match \d{4}[-/]\d{1,2}[-/]\d{1,2}.
DateTokens == {"2024-03-15", "2024/3/5"}

\* Line 107 and 110: the leftmost date of the row's text, "" if none.
date_search(row_str) ==
    LET hits == {i \in 1..Len(row_str) : row_str[i] \in DateTokens}
    IN  IF hits = {} THEN Empty ELSE <<row_str[Min(hits)]>>

\* The dict literals of lines 108-114 and 122-123.
NewSection(order_no, date, hm) ==
    [order_no |-> order_no, date |-> date, info |-> Empty,
     header_map |-> hm, data_rows |-> <<>>]

\* bool(header_map): neither None nor an empty dict.
Truthy(st) == st.header_map # 0 /\ DOMAIN st.hmaps[st.header_map] # {}

\* Lines 96-98 with the dict of header_map updated in place (clear and
\* update) when there is one, in place of a fresh dict.
header_row_InPlace(st, row_values) ==
    IF st.header_map = 0
    THEN LET hmaps1 == Append(st.hmaps, create_header_map(row_values))
         IN  [st EXCEPT !.hmaps = hmaps1, !.header_map = Len(hmaps1)]
    ELSE [st EXCEPT !.hmaps = [@ EXCEPT ![st.header_map] = create_header_map(row_values)]]

\* Lines 96-98 for a header row: a fresh h_map becomes header_map and is
\* attached to the active section; the row is not treated as data.
header_row(st, row_values) ==
    LET hmaps1 == Append(st.hmaps, create_header_map(row_values))
        ref == Len(hmaps1)
        cur == st.current_section
    IN  [st EXCEPT !.hmaps = hmaps1,
                   !.header_map = ref,
                   !.heap = IF cur # 0 THEN [@ EXCEPT ![cur].header_map = ref] ELSE @]

\* Lines 103-114 with a lookup of the order number among the sections already
\* emitted: a reappearing order number makes its old section active again.
open_section_Merge(st, row_no, found_id, row_str) ==
    LET cur == st.current_section
        opens == found_id # NoMatch /\ (cur = 0 \/ found_id # st.heap[cur].order_no)
        emit == cur # 0 /\ st.heap[cur].data_rows # <<>>
        old == {i \in 1..Len(st.sections) : st.heap[st.sections[i]].order_no = found_id}
        heap1 == Append(st.heap, NewSection(found_id, date_search(row_str), st.header_map))
    IN  IF ~opens THEN st
        ELSE IF old # {}
        THEN [st EXCEPT !.sections = IF emit THEN Append(@, cur) ELSE @,
                        !.current_section = st.sections[Min(old)]]
        ELSE [st EXCEPT !.sections = IF emit THEN Append(@, cur) ELSE @,
                        !.heap = heap1,
                        !.current_section = Len(heap1),
                        !.opened_at = Append(@, row_no),
                        !.implicit = Append(@, FALSE),
                        !.rec_rows = Append(@, <<>>)]

\* Lines 103-114 without the append of lines 104-105: the section that a new
\* order number closes is not returned.
open_section_DropClosed(st, row_no, found_id, row_str) ==
    LET cur == st.current_section
        opens == found_id # NoMatch /\ (cur = 0 \/ found_id # st.heap[cur].order_no)
        heap1 == Append(st.heap, NewSection(found_id, date_search(row_str), st.header_map))
    IN  IF ~opens THEN st
        ELSE [st EXCEPT !.heap = heap1,
                        !.current_section = Len(heap1),
                        !.opened_at = Append(@, row_no),
                        !.implicit = Append(@, FALSE),
                        !.rec_rows = Append(@, <<>>)]

\* Lines 103-114: a new, different order number closes the active section
\* (kept only if it has records) and opens a section.
open_section(st, row_no, found_id, row_str) ==
    LET cur == st.current_section
        opens == found_id # NoMatch /\ (cur = 0 \/ found_id # st.heap[cur].order_no)
        emit == cur # 0 /\ st.heap[cur].data_rows # <<>>
        heap1 == Append(st.heap, NewSection(found_id, date_search(row_str), st.header_map))
    IN  IF ~opens THEN st
        ELSE [st EXCEPT !.sections = IF emit THEN Append(@, cur) ELSE @,
                        !.heap = heap1,
                        !.current_section = Len(heap1),
                        !.opened_at = Append(@, row_no),
                        !.implicit = Append(@, FALSE),
                        !.rec_rows = Append(@, <<>>)]

\* Line 120: the header labels that are not item names.
Placeholders ==
    {<<"pinming">>, <<"wuliao", "mingcheng">>, <<"Material", " ", "Name">>,
     <<"wuliao", "mingcheng", "(", "pinming", ")">>}

\* Line 129: the values that stand for "no value".
EmptyWords == {<<"wu">>, <<"wu_trad">>, <<"none">>, <<"null">>, <<"-">>, <<"nan">>}

\* Lines 127-133: the info text of a section, from one projected row.
derive_info(item_data) ==
    LET agent0 == Strip(Get(item_data, "daigouchangshang", Empty))
        inquirer0 == Strip(Get(item_data, "xunjiaren", Empty))
        agent == IF Lower(agent0) \in EmptyWords THEN Empty ELSE agent0
        inquirer == IF Lower(inquirer0) \in EmptyWords THEN Empty ELSE inquirer0
    IN  IF agent # Empty /\ inquirer # Empty THEN agent \o <<"<fwcomma>">> \o inquirer
        ELSE IF agent # Empty THEN agent
        ELSE IF inquirer # Empty THEN inquirer
        ELSE <<"gongdanxiangqing">>

\* Lines 135-141 with the amount of the source column kept when the row has
\* one that is a number.
filtered_item_SourceAmount(item_data) ==
    LET qty == safe_float(Get(item_data, "shuliang", None))
        prc == safe_float(Get(item_data, "danjia", None))
        src == safe_float(Get(item_data, "jine", None))
        amt == IF src # 0 THEN src ELSE Round2(qty * prc, Scale * Scale)
        item1 == Put(Put(Put(item_data, "shuliang", qty),
                         "danjia", Round2(prc, Scale)),
                     "jine", amt)
    IN  [col \in {standard_columns[i] : i \in 1..Len(standard_columns)} |->
            Get(item1, col, Empty)]

\* Lines 135-141: quantity, unit price and amount, then the standard columns.
filtered_item(item_data) ==
    LET qty == safe_float(Get(item_data, "shuliang", None))
        prc == safe_float(Get(item_data, "danjia", None))
        item1 == Put(Put(Put(item_data, "shuliang", qty),
                         "danjia", Round2(prc, Scale)),
                     "jine", Round2(qty * prc, Scale * Scale))
    IN  [col \in {standard_columns[i] : i \in 1..Len(standard_columns)} |->
            Get(item1, col, Empty)]

\* Lines 121-123: a record with no active section opens one under global_id.
implicit_section(st, row_no, gid) ==
    IF st.current_section # 0 THEN st
    ELSE LET heap1 == Append(st.heap, NewSection(gid, Empty, st.header_map))
         IN  [st EXCEPT !.heap = heap1,
                        !.current_section = Len(heap1),
                        !.opened_at = Append(@, row_no),
                        !.implicit = Append(@, TRUE),
                        !.rec_rows = Append(@, <<>>)]

\* Lines 125-143 without the test of line 126: info derived from every row.
append_record_InfoEveryRow(st, row_no, item_data) ==
    LET cur == st.current_section
    IN  [st EXCEPT !.heap = [@ EXCEPT ![cur].info = derive_info(item_data),
                                      ![cur].data_rows = Append(@, filtered_item(item_data))],
                   !.rec_rows = [@ EXCEPT ![cur] = Append(@, row_no)]]

\* Lines 125-143: info is derived when it is still empty; the record is appended.
append_record(st, row_no, item_data) ==
    LET cur == st.current_section
        sec == st.heap[cur]
        info1 == IF sec.info = Empty THEN derive_info(item_data) ELSE sec.info
    IN  [st EXCEPT !.heap = [@ EXCEPT ![cur].info = info1,
                                      ![cur].data_rows = Append(@, filtered_item(item_data))],
                   !.rec_rows = [@ EXCEPT ![cur] = Append(@, row_no)]]

\* Whether line 120 accepts the projected item name.
IsItem(item_data) ==
    LET p_name == Get(item_data, "pinming", Empty)
    IN  p_name # Empty /\ p_name \notin Placeholders

\* Lines 116-143 with a row outside any section skipped, not given an
\* implicit section.
project_row_NeedsSection(st, row_no, row_values, gid) ==
    IF ~Truthy(st) \/ st.current_section = 0 THEN st
    ELSE LET item_data == map_row_to_std(row_values, st.hmaps[st.header_map])
         IN  IF ~IsItem(item_data) THEN st
             ELSE append_record(st, row_no, item_data)

\* Lines 116-143: projection of the row under the current header map.
project_row(st, row_no, row_values, gid) ==
    IF ~Truthy(st) THEN st
    ELSE LET item_data == map_row_to_std(row_values, st.hmaps[st.header_map])
         IN  IF ~IsItem(item_data) THEN st
             ELSE append_record(implicit_section(st, row_no, gid), row_no, item_data)

\* Lines 100-143 with the projection done before the new section is opened:
\* the trigger row's record goes to the section that is being closed.
data_row_ProjectFirst(st, row_no, row_values, gid) ==
    LET row_str == Join(row_values)
        found_id == order_no_search(row_str)
    IN  open_section(project_row(st, row_no, row_values, gid), row_no, found_id, row_str)

\* Lines 100-143 for a row that is not a header row.
data_row(st, row_no, row_values, gid) ==
    LET row_str == Join(row_values)
        found_id == order_no_search(row_str)
    IN  project_row(open_section(st, row_no, found_id, row_str), row_no, row_values, gid)

\* Lines 91-143 without the continue of line 98: a header row goes on to the
\* order-number search and the projection.
scan_row_NoContinue(st, row_no, raw, gid) ==
    LET row_values == StripRow(raw)
    IN  IF IsHeaderRow(Join(row_values))
        THEN data_row(header_row(st, row_values), row_no, row_values, gid)
        ELSE data_row(st, row_no, row_values, gid)

\* Lines 91-143: one iteration of the scan loop, for raw row r.
scan_row(st, row_no, raw, gid) ==
    LET row_values == StripRow(raw)
    IN  IF IsHeaderRow(Join(row_values)) THEN header_row(st, row_values)
        ELSE data_row(st, row_no, row_values, gid)

\* Lines 145-146 without the test for records.
end_of_input_KeepEmpty(st) ==
    LET cur == st.current_section
    IN  IF cur # 0 THEN [st EXCEPT !.sections = Append(@, cur)] ELSE st

\* Lines 145-146: the active section is kept if it has records.
end_of_input(st) ==
    LET cur == st.current_section
    IN  IF cur # 0 /\ st.heap[cur].data_rows # <<>>
        THEN [st EXCEPT !.sections = Append(@, cur)]
        ELSE st

\* The whole of parse_file_to_sections as a function of the loaded grid (an
\* unreadable file loads as the empty grid, lines 71-72 and 76).
RECURSIVE ScanFrom(_, _, _, _)
ScanFrom(st, df, row_no, gid) ==
    IF row_no > Len(df) THEN end_of_input(st)
    ELSE ScanFrom(scan_row(st, row_no, df[row_no], gid), df, row_no + 1, gid)

parse_file_to_sections(df) ==
    IF df = <<>> THEN <<>>
    ELSE LET st == ScanFrom(InitScan, df, 1, global_id_scan(df))
         IN  [i \in 1..Len(st.sections) |-> st.heap[st.sections[i]]]

\* ------------------------------------------------------------------ inputs

\* Rows of six cells: item name, spec, quantity, unit price, purchasing
\* agent, inquirer (under RowHeader's layout).
RowHeader ==
    <<<<"pinming">>, <<"guige">>, <<"shuliang">>, <<"danjia">>,
      <<"daigou", "changshang">>, <<"xunjia", "ren">>>>

\* A header row with another layout (spec first, then item name) that also
\* holds an order number.
RowHeaderB ==
    <<<<"guige">>, <<"wuliao", "mingcheng">>, <<"shuliang">>, <<"danjia">>,
      <<"XIDP-B0987654321">>, Empty>>

\* An order-number row without an item name.
RowOrderA ==
    <<Empty, Empty, Empty, Empty, <<"XIDP-A1234567890", " ", "2024-03-15">>, Empty>>

\* Order-number rows that are data rows as well.
RowOrderItemA ==
    <<<<"dianquan">>, <<"XIDP-A1234567890">>, <<"2", ".", "5">>, <<"1", ".", "5">>,
      <<"wu">>, <<"None">>>>

RowOrderItemB ==
    <<<<"luomu">>, <<"XIDP-B0987654321", " ", "2024/3/5">>, <<"2">>,
      <<"1", ",", "0", "0", "0">>, Empty, <<"Wang">>>>

\* Two data rows with the same item, spec and quantity (10 and " 10.0") and
\* different unit prices.
RowItem ==
    <<<<"luoshuan">>, <<"M6x20">>, <<"1", "0">>, <<"2", ".", "5", "0">>,
      <<"Zhang">>, <<"Li">>>>

RowItemAgain ==
    <<<<"luoshuan">>, <<"M6x20">>, <<" ", "1", "0", ".", "0">>, <<"3">>,
      <<"-">>, <<"Zhang">>>>

\* A row that repeats the header label of the item-name column.
RowLabel ==
    <<<<"pinming">>, Empty, Empty, Empty, Empty, Empty>>

RowSet ==
    {RowHeader, RowHeaderB, RowOrderA, RowOrderItemA, RowOrderItemB, RowItem,
     RowItemAgain, RowLabel}

Grids == UNION {[1..n -> RowSet] : n \in 0..MaxRows}

\* Cells of the rows handed to create_header_map in SpecHeader.
HeaderCells ==
    {<<"pinming">>, <<"wuliao", "guige">>, <<"caigou", "shuliang">>,
     <<"Unit", " ", "Price">>, <<"danwei">>, <<"danjia">>, Empty}

HeaderRows == [1..HdrCols -> HeaderCells]

\* Rows with an amount column: item name, spec, quantity, unit price, amount,
\* remark.
RowHeaderAmount ==
    <<<<"pinming">>, <<"guige">>, <<"shuliang">>, <<"danjia">>, <<"jine">>,
      <<"beizhu">>>>

\* Quantity cells: 2.5, empty, a word, 3 between blanks.
QtyCells == {<<"2", ".", "5">>, Empty, <<"shi">>, <<" ", "3", " ">>}

\* Unit-price cells: 0.125, empty, a text with two points.
PriceCells == {<<"0", ".", "1", "2", "5">>, Empty, <<"1", ".", ".", "5">>}

\* Amount cells: 999, empty.
AmountCells == {<<"9", "9", "9">>, Empty}

AmountRows ==
    {<<<<"luoshuan">>, <<"M6x20">>, q, p, a, Empty>> :
        q \in QtyCells, p \in PriceCells, a \in AmountCells}

\* The empty grid, and the header row followed by data rows.
AmountGrids ==
    {<<>>} \cup
    UNION {{<<RowHeaderAmount>> \o rows : rows \in [1..n -> AmountRows]} :
              n \in 0..AmtRows}

\* Files of a batch.  FileAll: order A with the same item twice at different
\* prices, order B, then order A again with the item once more.
FileAll ==
    <<RowHeader, RowOrderA, RowItem, RowItemAgain, RowOrderItemB, RowOrderA,
      RowItemAgain>>

\* Order A with the item of FileAll at the other price.
FileAgain == <<RowHeader, RowOrderA, RowItemAgain>>

\* Order A with a fractional quantity beside the whole one.
FileMixed == <<RowHeader, RowOrderItemA, RowItem>>

\* A file without an order number.
FileNoOrder == <<RowHeader, RowItem>>

\* A file that cannot be read, or a sheet without rows.
FileBad == <<>>

\* Order A with the same item twice and another item after it, then order B.
FileGap ==
    <<RowHeader, RowOrderA, RowItem, RowItemAgain, RowOrderItemA, RowOrderItemB>>

FileSet == {FileAll, FileAgain, FileMixed, FileNoOrder, FileBad, FileGap}

Batches == UNION {[1..n -> FileSet] : n \in 0..MaxFiles}

\* -------------------------------------------------------- WorkerThread.run

\* A worksheet cell value: a str, a number, or nothing (a cell that only has
\* a border).
StrCell(t) == <<"str", t>>
NumCell(n) == <<"num", n>>
Blank == <<"none">>

\* ws.cell(row, col, val) on sheet w: the row is created with blank cells when
\* it does not exist; the other cells of the row keep their value.
SetCell(w, row, col, val) ==
    [n \in (DOMAIN w) \cup {row} |->
        IF n # row THEN w[n]
        ELSE [c \in 1..Len(standard_columns) |->
                 IF c = col THEN val
                 ELSE IF row \in DOMAIN w THEN w[row][c] ELSE Blank]]

\* Lines 202-205: the sheet after the column titles are written to row 1.
TitleSheet ==
    [n \in {1} |-> [c \in 1..Len(standard_columns) |-> StrCell(<<standard_columns[c]>>)]]

\* Lines 214-224: date, info and order number in cells 1 to 3 of the row, and
\* a border on its eight cells.
WriteInfoRow(w, row, sec) ==
    SetCell(SetCell(SetCell(w, row, 1, StrCell(sec.date)), row, 2, StrCell(sec.info)),
            row, 3, StrCell(<<sec.order_no>>))

\* Lines 233-240: the eight cells of a record; the sequence number replaces
\* the record's own (empty) one.
WriteDataRow(w, row, rec, seq_no) ==
    [n \in (DOMAIN w) \cup {row} |->
        IF n # row THEN w[n]
        ELSE [c \in 1..Len(standard_columns) |->
                 LET col_name == standard_columns[c]
                 IN  IF col_name = "xuhao" THEN NumCell(seq_no)
                     ELSE IF col_name \in {"shuliang", "danjia", "jine"}
                          THEN NumCell(rec[col_name])
                          ELSE StrCell(rec[col_name])]]

\* Line 250: int((idx + 1) / len(self.files) * 100).
percent(i, n) == ((i + 1) * 100) \div n

\* How pd.concat types the quantity column of data_rows, which depends on
\* the pandas release: "object" keeps the Python ints and floats of line 137
\* as they are; "inferred" leaves the empty frame of line 108 out of the
\* result's dtype, so the column is int64 while every quantity is whole and
\* float64 from the first fractional one on.
FrameDtypes == {"object", "inferred"}

\* row['shuliang'] as iterrows() yields it for record rec of section sec.
iter_qty(dtype, sec, rec) ==
    LET fractional == {i \in 1..Len(sec.data_rows) :
                          ~is_integer(sec.data_rows[i].shuliang)}
    IN  IF dtype = "inferred" /\ fractional # {}
        THEN <<"float", rec.shuliang>>
        ELSE int_or_float(rec.shuliang)

\* Lines 228: the row Series of record rec, with the quantity as yielded.
iter_row(dtype, sec, rec) == [rec EXCEPT !.shuliang = iter_qty(dtype, sec, rec)]

\* The key of line 229 with the unit price in it.
sig_of_WithPrice(sec, row) ==
    <<sec.order_no, row.pinming, row["guige/tuhao"], str_number(row.shuliang),
      row.danjia>>

\* Line 229: the deduplication key of row of section sec.
sig_of(sec, row) ==
    <<sec.order_no, row.pinming, row["guige/tuhao"], str_number(row.shuliang)>>

\* No section is being exported.
NoSection == NewSection(NoMatch, Empty, 0)

\* No workbook has been saved.
NotSaved == [done |-> FALSE, sheet |-> TitleSheet]

\* ------------------------------------------- SpecHeader: create_header_map

HeaderIdle == hdr_row = <<>> /\ hdr_map = EmptyMap /\ hdr_pc = "idle"

\* The scanner's locals as a record, and back.
Scan ==
    [sections |-> sections, heap |-> heap, current_section |-> current_section,
     hmaps |-> hmaps, header_map |-> header_map,
     opened_at |-> opened_at, implicit |-> implicit, rec_rows |-> rec_rows]

SetScan(st) ==
    /\ sections' = st.sections
    /\ heap' = st.heap
    /\ current_section' = st.current_section
    /\ hmaps' = st.hmaps
    /\ header_map' = st.header_map
    /\ opened_at' = st.opened_at
    /\ implicit' = st.implicit
    /\ rec_rows' = st.rec_rows

ScanIs(st) ==
    /\ sections = st.sections
    /\ heap = st.heap
    /\ current_section = st.current_section
    /\ hmaps = st.hmaps
    /\ header_map = st.header_map
    /\ opened_at = st.opened_at
    /\ implicit = st.implicit
    /\ rec_rows = st.rec_rows

ScanIdle ==
    /\ grid = <<>> /\ pc = "idle" /\ r = 0 /\ global_id = UnknownId
    /\ ScanIs(InitScan)

\* The locals of run() before line 192, given the file list and the flag.
RunLocalsInit ==
    /\ file_idx = 0
    /\ run_sections = <<>>
    /\ section = NoSection
    /\ row_iter = <<>>
    /\ seen_rows = {}
    /\ ws = TitleSheet
    /\ curr_row = 0
    /\ start_row = 0
    /\ written_count = 0
    /\ emitted = <<>>
    /\ saved = NotSaved
    /\ encountered = <<>>
    /\ sec_no = 0

RunIdle ==
    /\ files = <<>> /\ run_pc = "idle" /\ abort = FALSE /\ frame_dtype = "object"
    /\ btn_run = TRUE
    /\ RunLocalsInit

InitHeader ==
    /\ hdr_row \in HeaderRows
    /\ hdr_map = EmptyMap
    /\ hdr_pc = "call"
    /\ ScanIdle
    /\ RunIdle

\* Lines 149-156.
CreateHeaderMap ==
    /\ hdr_pc = "call"
    /\ hdr_map' = create_header_map(hdr_row)
    /\ hdr_pc' = "return"
    /\ UNCHANGED <<hdr_row, svars, rvars>>

NextHeader == CreateHeaderMap

SpecHeader == InitHeader /\ [][NextHeader]_vars

\* ---------------------------------------- Spec: parse_file_to_sections

Init ==
    /\ grid \in Grids
    /\ pc = "load"
    /\ r = 0
    /\ global_id = UnknownId
    /\ ScanIs(InitScan)
    /\ HeaderIdle
    /\ RunIdle

\* Line 76: an empty frame returns no section.
ReturnEmpty ==
    /\ pc = "load"
    /\ grid = <<>>
    /\ pc' = "done"
    /\ UNCHANGED <<grid, r, global_id, sections, heap, current_section, hmaps,
                   header_map, opened_at, implicit, rec_rows, hvars, rvars>>

\* Lines 78-88.
PreScan ==
    /\ pc = "load"
    /\ grid # <<>>
    /\ global_id' = global_id_scan(grid)
    /\ r' = 1
    /\ pc' = "scan"
    /\ UNCHANGED <<grid, sections, heap, current_section, hmaps, header_map,
                   opened_at, implicit, rec_rows, hvars, rvars>>

\* Lines 90-98: the iteration for a header row.
ScanHeaderRow ==
    /\ pc = "scan"
    /\ r <= Len(grid)
    /\ IsHeaderRow(Join(StripRow(grid[r])))
    /\ SetScan(scan_row(Scan, r, grid[r], global_id))
    /\ r' = r + 1
    /\ UNCHANGED <<grid, pc, global_id, hvars, rvars>>

\* Lines 90-143: the iteration for any other row.
ScanDataRow ==
    /\ pc = "scan"
    /\ r <= Len(grid)
    /\ ~IsHeaderRow(Join(StripRow(grid[r])))
    /\ SetScan(scan_row(Scan, r, grid[r], global_id))
    /\ r' = r + 1
    /\ UNCHANGED <<grid, pc, global_id, hvars, rvars>>

\* Lines 145-147.
EndOfInput ==
    /\ pc = "scan"
    /\ r > Len(grid)
    /\ SetScan(end_of_input(Scan))
    /\ pc' = "done"
    /\ UNCHANGED <<grid, r, global_id, hvars, rvars>>

Next == ReturnEmpty \/ PreScan \/ ScanHeaderRow \/ ScanDataRow \/ EndOfInput

Spec == Init /\ [][Next]_vars

\* ---------------------- SpecAmount: parse_file_to_sections, amount columns

InitAmount ==
    /\ grid \in AmountGrids
    /\ pc = "load"
    /\ r = 0
    /\ global_id = UnknownId
    /\ ScanIs(InitScan)
    /\ HeaderIdle
    /\ RunIdle

SpecAmount == InitAmount /\ [][Next]_vars

\* -------------------------------------------------- SpecRun: WorkerThread.run

InitRun ==
    /\ files \in Batches
    /\ frame_dtype \in FrameDtypes
    /\ run_pc = "start"
    /\ abort = FALSE
    /\ btn_run = FALSE
    /\ RunLocalsInit
    /\ HeaderIdle
    /\ ScanIdle

\* Lines 187-188: stop(), called from the interface while the worker runs.
Stop ==
    /\ run_pc # "done"
    /\ ~abort
    /\ abort' = TRUE
    /\ UNCHANGED <<files, run_pc, file_idx, run_sections, section, row_iter,
                   seen_rows, ws, curr_row, start_row, written_count, emitted,
                   saved, encountered, frame_dtype, sec_no, btn_run, hvars, svars>>

\* Lines 192-207: the empty key set, the title row, the first free row.
RunStart ==
    /\ run_pc = "start"
    /\ seen_rows' = {}
    /\ ws' = TitleSheet
    /\ curr_row' = 2
    /\ file_idx' = 0
    /\ run_pc' = "file"
    /\ UNCHANGED <<files, abort, run_sections, section, row_iter, start_row,
                   written_count, emitted, saved, encountered, frame_dtype,
                   sec_no, btn_run, hvars, svars>>

\* Line 209 with the flag read before every section as well.
AbortBreak_MidFile ==
    /\ run_pc \in {"file", "section"}
    /\ file_idx < Len(files)
    /\ abort
    /\ run_pc' = "after"
    /\ UNCHANGED <<files, file_idx, abort, run_sections, section, row_iter,
                   seen_rows, ws, curr_row, start_row, written_count, emitted,
                   saved, encountered, frame_dtype, sec_no, btn_run, hvars, svars>>

\* Line 209: the flag is read at the head of an iteration of the file loop.
AbortBreak ==
    /\ run_pc = "file"
    /\ file_idx < Len(files)
    /\ abort
    /\ run_pc' = "after"
    /\ UNCHANGED <<files, file_idx, abort, run_sections, section, row_iter,
                   seen_rows, ws, curr_row, start_row, written_count, emitted,
                   saved, encountered, frame_dtype, sec_no, btn_run, hvars, svars>>

\* Line 210 with a file that yields no grid ending the file loop.
ParseFile_StopsAtBadFile ==
    /\ run_pc = "file"
    /\ file_idx < Len(files)
    /\ ~abort
    /\ run_sections' = parse_file_to_sections(files[file_idx + 1])
    /\ run_pc' = IF files[file_idx + 1] = <<>> THEN "after" ELSE "section"
    /\ UNCHANGED <<files, file_idx, abort, section, row_iter, seen_rows, ws,
                   curr_row, start_row, written_count, emitted, saved,
                   encountered, frame_dtype, sec_no, btn_run, hvars, svars>>

\* Line 210.
ParseFile ==
    /\ run_pc = "file"
    /\ file_idx < Len(files)
    /\ ~abort
    /\ run_sections' = parse_file_to_sections(files[file_idx + 1])
    /\ run_pc' = "section"
    /\ UNCHANGED <<files, file_idx, abort, section, row_iter, seen_rows, ws,
                   curr_row, start_row, written_count, emitted, saved,
                   encountered, frame_dtype, sec_no, btn_run, hvars, svars>>

\* Lines 211-227: the next section's info row.
SectionStart ==
    /\ run_pc = "section"
    /\ run_sections # <<>>
    /\ section' = Head(run_sections)
    /\ run_sections' = Tail(run_sections)
    /\ start_row' = curr_row
    /\ ws' = WriteInfoRow(ws, curr_row, Head(run_sections))
    /\ curr_row' = curr_row + 1
    /\ written_count' = 0
    /\ row_iter' = Head(run_sections).data_rows
    /\ sec_no' = sec_no + 1
    /\ run_pc' = "row"
    /\ UNCHANGED <<files, file_idx, abort, seen_rows, emitted, saved,
                   encountered, frame_dtype, btn_run, hvars, svars>>

\* The record at the head of the iteration, as iterrows() yields it.
NextRow == iter_row(frame_dtype, section, Head(row_iter))

\* The record as remembered for the properties: where it was met and what
\* was met.
Met(row) == [file |-> file_idx + 1, sec |-> sec_no, order_no |-> section.order_no,
             row |-> row]

\* Lines 228-230 with the skipped record counted in written_count.
SkipDuplicate_Counts ==
    /\ run_pc = "row"
    /\ row_iter # <<>>
    /\ sig_of(section, NextRow) \in seen_rows
    /\ row_iter' = Tail(row_iter)
    /\ written_count' = written_count + 1
    /\ encountered' = Append(encountered, Met(NextRow))
    /\ UNCHANGED <<files, run_pc, file_idx, abort, run_sections, section,
                   seen_rows, ws, curr_row, start_row, emitted,
                   saved, frame_dtype, sec_no, btn_run, hvars, svars>>

\* Lines 228-230: a record whose key is in seen_rows.
SkipDuplicate ==
    /\ run_pc = "row"
    /\ row_iter # <<>>
    /\ sig_of(section, NextRow) \in seen_rows
    /\ row_iter' = Tail(row_iter)
    /\ encountered' = Append(encountered, Met(NextRow))
    /\ UNCHANGED <<files, run_pc, file_idx, abort, run_sections, section,
                   seen_rows, ws, curr_row, start_row, written_count, emitted,
                   saved, frame_dtype, sec_no, btn_run, hvars, svars>>

\* Lines 228-242: a record with a new key.
WriteRecord ==
    /\ run_pc = "row"
    /\ row_iter # <<>>
    /\ sig_of(section, NextRow) \notin seen_rows
    /\ seen_rows' = seen_rows \cup {sig_of(section, NextRow)}
    /\ ws' = WriteDataRow(ws, curr_row, NextRow, written_count + 1)
    /\ curr_row' = curr_row + 1
    /\ written_count' = written_count + 1
    /\ row_iter' = Tail(row_iter)
    /\ encountered' = Append(encountered, Met(NextRow))
    /\ UNCHANGED <<files, run_pc, file_idx, abort, run_sections, section,
                   start_row, emitted, saved, frame_dtype, sec_no, btn_run, hvars, svars>>

\* Lines 244-245: nothing of the section was written.
SectionRollback ==
    /\ run_pc = "row"
    /\ row_iter = <<>>
    /\ written_count = 0
    /\ curr_row' = curr_row - 1
    /\ run_pc' = "section"
    /\ UNCHANGED <<files, file_idx, abort, run_sections, section, row_iter,
                   seen_rows, ws, start_row, written_count, emitted, saved,
                   encountered, frame_dtype, sec_no, btn_run, hvars, svars>>

\* Lines 246-248: the outer border (a style), then one row left free.
SectionClose ==
    /\ run_pc = "row"
    /\ row_iter = <<>>
    /\ written_count # 0
    /\ curr_row' = curr_row + 1
    /\ run_pc' = "section"
    /\ UNCHANGED <<files, file_idx, abort, run_sections, section, row_iter,
                   seen_rows, ws, start_row, written_count, emitted, saved,
                   encountered, frame_dtype, sec_no, btn_run, hvars, svars>>

\* Line 250, and the step of the file loop.
FileDone ==
    /\ run_pc = "section"
    /\ run_sections = <<>>
    /\ emitted' = Append(emitted, [sig |-> "progress",
                                   pct |-> percent(file_idx, Len(files)),
                                   idx |-> file_idx])
    /\ file_idx' = file_idx + 1
    /\ run_pc' = "file"
    /\ UNCHANGED <<files, abort, run_sections, section, row_iter, seen_rows, ws,
                   curr_row, start_row, written_count, saved, encountered,
                   frame_dtype, sec_no, btn_run, hvars, svars>>

\* The file loop ends after the last file.
LoopEnd ==
    /\ run_pc = "file"
    /\ file_idx = Len(files)
    /\ run_pc' = "after"
    /\ UNCHANGED <<files, file_idx, abort, run_sections, section, row_iter,
                   seen_rows, ws, curr_row, start_row, written_count, emitted,
                   saved, encountered, frame_dtype, sec_no, btn_run, hvars, svars>>

\* The test of line 252 on the last section's count of written records.
has_output_LastSection == written_count > 0

\* Line 252: a row below the title row was used.
has_output == curr_row > 2

\* Lines 252-256.
Save ==
    /\ run_pc = "after"
    /\ has_output
    /\ saved' = [done |-> TRUE, sheet |-> ws]
    /\ emitted' = Append(emitted, [sig |-> "finished"])
    /\ run_pc' = "done"
    /\ UNCHANGED <<files, file_idx, abort, run_sections, section, row_iter,
                   seen_rows, ws, curr_row, start_row, written_count,
                   encountered, frame_dtype, sec_no, btn_run, hvars, svars>>

\* Lines 255 and 259-261: wb.save raises.
SaveFails ==
    /\ run_pc = "after"
    /\ has_output
    /\ emitted' = emitted \o <<[sig |-> "log"], [sig |-> "stopped"]>>
    /\ run_pc' = "done"
    /\ UNCHANGED <<files, file_idx, abort, run_sections, section, row_iter,
                   seen_rows, ws, curr_row, start_row, written_count, saved,
                   encountered, frame_dtype, sec_no, btn_run, hvars, svars>>

\* Lines 257-258.
NoOutput ==
    /\ run_pc = "after"
    /\ ~has_output
    /\ emitted' = Append(emitted, [sig |-> "stopped"])
    /\ run_pc' = "done"
    /\ UNCHANGED <<files, file_idx, abort, run_sections, section, row_iter,
                   seen_rows, ws, curr_row, start_row, written_count, saved,
                   encountered, frame_dtype, sec_no, btn_run, hvars, svars>>

\* The run-side variables but the button.
RunVars ==
    <<files, run_pc, file_idx, abort, run_sections, section, row_iter, seen_rows,
      ws, curr_row, start_row, written_count, emitted, saved, encountered,
      frame_dtype, sec_no>>

\* Lines 414-416 and 422-424: the slot of finished_signal re-enables the
\* button (after the message box is closed).
OnFinished ==
    /\ run_pc = "done"
    /\ ~btn_run
    /\ emitted[Len(emitted)].sig = "finished"
    /\ btn_run' = TRUE
    /\ UNCHANGED <<RunVars, hvars, svars>>

\* Lines 419-424: the slot of stopped_signal re-enables the button.
OnStopped ==
    /\ run_pc = "done"
    /\ ~btn_run
    /\ emitted[Len(emitted)].sig = "stopped"
    /\ btn_run' = TRUE
    /\ UNCHANGED <<RunVars, hvars, svars>>

NextRun ==
    \/ Stop \/ RunStart \/ AbortBreak \/ ParseFile \/ SectionStart
    \/ SkipDuplicate \/ WriteRecord \/ SectionRollback \/ SectionClose
    \/ FileDone \/ LoopEnd \/ Save \/ SaveFails \/ NoOutput
    \/ OnFinished \/ OnStopped

SpecRun == InitRun /\ [][NextRun]_vars

\* The steps of the worker thread but the parsing of a file; stop() is taken
\* by the interface thread.
RunThread ==
    \/ RunStart \/ AbortBreak \/ SectionStart
    \/ SkipDuplicate \/ WriteRecord \/ SectionRollback \/ SectionClose
    \/ FileDone \/ LoopEnd \/ Save \/ SaveFails \/ NoOutput

\* ParseFile can be taken (and then changes run_pc).
ParseFileEnabled == run_pc = "file" /\ file_idx < Len(files) /\ ~abort

\* The started thread is scheduled until run() returns: weak fairness of its
\* steps, that of ParseFile written out with its enabling condition.
SpecRunFair ==
    /\ SpecRun
    /\ WF_vars(RunThread)
    /\ ([]<>~ParseFileEnabled \/ []<><<ParseFile>>_vars)

\* ------------------------------- SpecRunExc: WorkerThread.run, exceptions

\* Lines 259-261 with the exception leaving run(): no signal is emitted.
Raise_NoSignal ==
    /\ run_pc \in {"start", "file", "section", "row", "after"}
    /\ run_pc' = "done"
    /\ UNCHANGED <<files, file_idx, abort, run_sections, section, row_iter,
                   seen_rows, ws, curr_row, start_row, written_count, emitted,
                   saved, encountered, frame_dtype, sec_no, btn_run, hvars, svars>>

\* Lines 259-261: an exception raised by a statement of the try block
\* (lines 191-258) is logged and stopped_signal is emitted.
Raise ==
    /\ run_pc \in {"start", "file", "section", "row", "after"}
    /\ emitted' = emitted \o <<[sig |-> "log"], [sig |-> "stopped"]>>
    /\ run_pc' = "done"
    /\ UNCHANGED <<files, file_idx, abort, run_sections, section, row_iter,
                   seen_rows, ws, curr_row, start_row, written_count, saved,
                   encountered, frame_dtype, sec_no, btn_run, hvars, svars>>

NextRunExc == NextRun \/ Raise

\* The thread is scheduled until run() returns and the interface thread
\* handles the signals it receives.
SpecRunExc ==
    /\ InitRun
    /\ [][NextRunExc]_vars
    /\ WF_vars(RunThread)
    /\ ([]<>~ParseFileEnabled \/ []<><<ParseFile>>_vars)
    /\ WF_vars(OnFinished \/ OnStopped)

\* ------------------------------------------------------------ properties

\* The text of row i, the order number found in it, and its classification.
RowText(i) == Join(StripRow(grid[i]))
RowToken(i) == order_no_search(RowText(i))
RowIsHeader(i) == IsHeaderRow(RowText(i))

\* The scan loop is about to run its iteration for row r.
AtRow == pc = "scan" /\ r <= Len(grid)

\* The row scanned by the last step.
Scanned == IF pc = "scan" THEN r - 1 ELSE 0

\* C1: no column index is assigned to more than one field by
\* create_header_map.  (Stated as claimed; the code violates it.)
C1_OneFieldPerColumn ==
    hdr_pc = "return" =>
        \A f, g \in DOMAIN hdr_map : f # g => hdr_map[f] # hdr_map[g]

\* C2, as claimed: a row classified as a header row that holds an order number
\* different from the active section's (or seen with no active section) opens
\* a new section with that order number.
C2_SearchOnEveryRow ==
    [][(/\ AtRow
        /\ RowIsHeader(r)
        /\ RowToken(r) # NoMatch
        /\ (current_section = 0 \/ heap[current_section].order_no # RowToken(r)))
       => (/\ current_section' # current_section
           /\ heap'[current_section'].order_no = RowToken(r))]_vars

\* C2, amended: the order-number search runs on the rows that are not header
\* rows: such a row with an order number different from the active section's
\* (or with no active section) opens a new section with that number, and a
\* header row opens and closes no section, whatever its text holds.
C2_SearchOnNonHeaderRows ==
    [][AtRow =>
        IF RowIsHeader(r)
        THEN /\ current_section' = current_section
             /\ sections' = sections
             /\ Len(heap') = Len(heap)
        ELSE (/\ RowToken(r) # NoMatch
              /\ (current_section = 0 \/ heap[current_section].order_no # RowToken(r)))
             => (/\ current_section' = Len(heap) + 1
                 /\ Len(heap') = Len(heap) + 1
                 /\ heap'[current_section'].order_no = RowToken(r))]_vars

\* C2 witness: a header row holding an order number other than the active
\* section's has just been scanned.
C2_HeaderRowWithToken ==
    /\ Scanned >= 1
    /\ RowIsHeader(Scanned)
    /\ RowToken(Scanned) # NoMatch
    /\ current_section # 0
    /\ heap[current_section].order_no # RowToken(Scanned)

\* The order number of the last row before row n that holds one, header rows
\* included; the sentinel if there is none.
LastTokenBefore(n) ==
    LET rows == {i \in 1..(n - 1) : RowToken(i) # NoMatch}
    IN  IF rows = {} THEN UnknownId ELSE RowToken(Max(rows))

\* The order number of the first row of the file that holds one; the sentinel
\* if there is none.
FirstTokenOfFile ==
    LET rows == {i \in 1..Len(grid) : RowToken(i) # NoMatch}
    IN  IF rows = {} THEN UnknownId ELSE RowToken(Min(rows))

\* C3, as claimed: an implicit section gets the most recent order number of
\* the rows before the data row that opened it, the sentinel if none has one.
C3_MostRecentEarlierToken ==
    \A s \in 1..Len(heap) :
        implicit[s] => heap[s].order_no = LastTokenBefore(opened_at[s])

\* C3, amended: an implicit section gets the first order number of the file,
\* top to bottom, whether its row lies before or after the data row and
\* whether or not it is a header row; it gets the sentinel only when no row
\* of the file holds an order number.
C3_FirstTokenOfFile ==
    \A s \in 1..Len(heap) :
        implicit[s] => heap[s].order_no = FirstTokenOfFile

\* C3 witness: an implicit section labelled with an order number, with records.
C3_ImplicitWithToken ==
    \E s \in 1..Len(heap) :
        /\ implicit[s]
        /\ heap[s].order_no # UnknownId
        /\ heap[s].data_rows # <<>>
        /\ \E i \in 1..Len(grid) : RowToken(i) \notin {NoMatch, heap[s].order_no}

\* C4: the sections are returned in the order of the rows that opened them,
\* and no record of a section comes from a row past a later row with another
\* order number: a reappearing order number never feeds its earlier section.
C4_SectionsInScanOrder ==
    /\ \A i, j \in 1..Len(sections) :
          i < j => opened_at[sections[i]] < opened_at[sections[j]]
    /\ \A s \in 1..Len(heap) : \A k \in 1..Len(rec_rows[s]) :
          LET n == rec_rows[s][k]
          IN  /\ n >= opened_at[s]
              /\ \A i \in (opened_at[s] + 1)..n :
                    (~RowIsHeader(i) /\ RowToken(i) # NoMatch)
                        => RowToken(i) = heap[s].order_no

\* C4 witness: two returned sections carry the same order number.
C4_ReappearedOrderNo ==
    /\ pc = "done"
    /\ \E i, j \in 1..Len(sections) :
          /\ i < j
          /\ heap[sections[i]].order_no = heap[sections[j]].order_no
          /\ heap[sections[j]].data_rows # <<>>

\* C5: every returned section holds a record; at the end of the scan the
\* returned sections are exactly the sections that accumulated a record, each
\* once, so an empty one is dropped and the one active at the end is kept.
C5_NoEmptySection ==
    /\ \A i \in 1..Len(sections) : heap[sections[i]].data_rows # <<>>
    /\ \A i, j \in 1..Len(sections) : i # j => sections[i] # sections[j]
    /\ pc = "done" =>
          \A s \in 1..Len(heap) :
              heap[s].data_rows # <<>> <=> \E i \in 1..Len(sections) : sections[i] = s

\* C5 witness: the scan ended with a dropped empty section and with the
\* section active at the end returned.
C5_DroppedAndKept ==
    /\ pc = "done"
    /\ \E s \in 1..Len(heap) : heap[s].data_rows = <<>>
    /\ Len(sections) >= 1
    /\ sections[Len(sections)] = current_section

\* The cell of row i in the column that dict h gives to field f, stripped;
\* the empty str when h has no column for f or the row is too short.
CellOf(i, h, f) ==
    IF f \in DOMAIN h /\ h[f] < Len(grid[i]) THEN Strip(grid[i][h[f] + 1]) ELSE Empty

\* C7: a header row changes no record of any section, adds no section, leaves
\* the returned sections and every dict they hold as they were, and only makes
\* a new header map current; the next records are read through the map that
\* is current when their row is scanned.
C7_HeaderRowNotRetroactive ==
    [][AtRow =>
        IF RowIsHeader(r)
        THEN /\ Len(heap') = Len(heap)
             /\ sections' = sections
             /\ \A s \in 1..Len(heap) : heap'[s].data_rows = heap[s].data_rows
             /\ \A i \in 1..Len(sections) :
                   /\ heap'[sections[i]] = heap[sections[i]]
                   /\ heap[sections[i]].header_map # 0
                   /\ hmaps'[heap'[sections[i]].header_map]
                        = hmaps[heap[sections[i]].header_map]
             /\ header_map' # 0
             /\ hmaps'[header_map'] = create_header_map(StripRow(grid[r]))
        ELSE \A s \in 1..Len(heap') :
                LET old == IF s <= Len(heap) THEN heap[s].data_rows ELSE <<>>
                    new == heap'[s].data_rows
                IN  /\ SubSeq(new, 1, Len(old)) = old
                    /\ Len(new) > Len(old) =>
                          /\ Len(new) = Len(old) + 1
                          /\ header_map # 0
                          /\ new[Len(new)].pinming
                               = CellOf(r, hmaps[header_map], "pinming")
                          /\ new[Len(new)]["guige/tuhao"]
                               = CellOf(r, hmaps[header_map], "guige/tuhao")]_vars

\* C7 witness: a header row has just been scanned while a section had been
\* returned and the active section held records, and it made a map current
\* that differs from the one the returned section holds.
C7_HeaderRowMidFile ==
    /\ Scanned >= 1
    /\ RowIsHeader(Scanned)
    /\ Len(sections) >= 1
    /\ current_section # 0
    /\ heap[current_section].data_rows # <<>>
    /\ hmaps[heap[sections[1]].header_map] # hmaps[header_map]

\* The info text that row i gives under dict h: the purchasing agent and the
\* inquirer, a placeholder counting as absent, joined by the full-width
\* comma; the default label when both are absent.
ExpectedInfo(i, h) ==
    LET absent(t) == Lower(t) \in {<<"wu">>, <<"wu_trad">>, <<"none">>, <<"null">>,
                                   <<"-">>, <<"nan">>, Empty}
        a == CellOf(i, h, "daigouchangshang")
        q == CellOf(i, h, "xunjiaren")
    IN  CASE absent(a) /\ absent(q) -> <<"gongdanxiangqing">>
          [] absent(a) /\ ~absent(q) -> q
          [] ~absent(a) /\ absent(q) -> a
          [] OTHER -> a \o <<"<fwcomma>">> \o q

\* C8: a section's info is empty until its first record, is set from the row
\* of that first record, non-empty, and is not changed by any later step.
C8_InfoSetOnce ==
    [][\A s \in 1..Len(heap') :
          LET old == IF s <= Len(heap) THEN heap[s].data_rows ELSE <<>>
              new == heap'[s].data_rows
          IN  /\ new = <<>> => heap'[s].info = Empty
              /\ (old = <<>> /\ new # <<>>) =>
                    /\ heap'[s].info = ExpectedInfo(r, hmaps[header_map])
                    /\ heap'[s].info # Empty
              /\ old # <<>> => heap'[s].info = heap[s].info]_vars

\* C8 witness: a section holds two records and the row of the second one
\* would give another info than the one the section has.
C8_LaterRowDiffers ==
    \E s \in 1..Len(heap) :
        /\ Len(heap[s].data_rows) >= 2
        /\ heap[s].info # ExpectedInfo(rec_rows[s][2], hmaps[heap[s].header_map])

\* A row of the file holds an order number; a row of the file has a name-like
\* and a quantity-like header keyword.
FileHasToken ==
    \E i \in 1..Len(grid) :
        LET t == RowText(i) IN \E j \in 1..Len(t) : t[j] \in OrderTokens

HeaderLike(i) ==
    LET t == RowText(i)
    IN  /\ \E j \in 1..Len(t) :
              \/ t[j] \in {"pinming", "guige"}
              \/ (j < Len(t) /\ t[j] = "wuliao" /\ t[j + 1] = "mingcheng")
        /\ \E j \in 1..Len(t) : t[j] \in {"shuliang", "danjia"}

FileHasHeader == \E i \in 1..Len(grid) : HeaderLike(i)

\* C9: a grid without any order number and without any header row gives no
\* section (and none is ever created during its scan).
C9_NoTokenNoHeaderNoSection ==
    (~FileHasToken /\ ~FileHasHeader) => (sections = <<>> /\ heap = <<>>)

\* C9 witness: the scan of such a grid with rows whose cells hold text ended.
C9_PlainRowsScanned ==
    /\ pc = "done"
    /\ ~FileHasToken /\ ~FileHasHeader
    /\ Len(grid) >= 2
    /\ \E i \in 1..Len(grid) : grid[i][1] \notin {Empty, <<"pinming">>}

\* The rows that follow a header row, are not header rows and whose item name,
\* read through the map of the last header row before them, is neither empty
\* nor a header label.
ItemRows ==
    {i \in 1..Len(grid) :
        /\ ~HeaderLike(i)
        /\ \E h \in 1..(i - 1) : HeaderLike(h)
        /\ LET h == Max({k \in 1..(i - 1) : HeaderLike(k)})
               name == CellOf(i, create_header_map(StripRow(grid[h])), "pinming")
           IN  name # Empty /\ name \notin Placeholders}

\* C10: a file with a header row, no order number in any row and at least one
\* item row after the header gives exactly one section, labelled with the
\* sentinel, holding one record per item row, in row order.
C10_SentinelSectionKept ==
    (pc = "done" /\ ~FileHasToken /\ ItemRows # {}) =>
        /\ Len(sections) = 1
        /\ heap[sections[1]].order_no = UnknownId
        /\ Len(heap[sections[1]].data_rows) = Cardinality(ItemRows)
        /\ {rec_rows[sections[1]][k] : k \in 1..Len(rec_rows[sections[1]])} = ItemRows
        /\ \A k, m \in 1..Len(rec_rows[sections[1]]) :
              k < m => rec_rows[sections[1]][k] < rec_rows[sections[1]][m]

\* C10 witness: such a file was scanned and its section holds two records.
C10_TwoItemsNoToken ==
    /\ pc = "done"
    /\ ~FileHasToken
    /\ Cardinality(ItemRows) >= 2
    /\ Len(sections) = 1


\* The data rows of the sheet (a sequence number in column 1), the info row
\* a data row stands under, and the key the sheet shows for a data row.
SheetDataRows == {n \in DOMAIN ws : n > 1 /\ ws[n][1][1] = "num"}
InfoRowAbove(n) == Max({m \in DOMAIN ws : m > 1 /\ m < n /\ ws[m][1][1] = "str"})
SheetKey(n) ==
    <<ws[InfoRowAbove(n)][3][2][1], ws[n][2][2], ws[n][3][2], str_number(ws[n][5][2])>>

\* The key of a record met by the export, and the first record met with the
\* key of the k-th one.
MetKey(e) ==
    <<e.order_no, e.row.pinming, e.row["guige/tuhao"], str_number(e.row.shuliang)>>
FirstMet(k) ==
    encountered[Min({j \in 1..Len(encountered) :
                        MetKey(encountered[j]) = MetKey(encountered[k])})]

\* C6: during a batch run the sheet holds one data row for every key (order
\* number, item name, spec/drawing no., quantity as text) met so far and no
\* two rows with one key; the row of a key shows the unit price and amount
\* of the first record met with that key, whatever the later ones say, and
\* every key met since the start of the batch is still in seen_rows; the
\* saved workbook is this sheet.
C6_BatchWideDedup ==
    /\ \A n1, n2 \in SheetDataRows : SheetKey(n1) = SheetKey(n2) => n1 = n2
    /\ \A k \in 1..Len(encountered) :
          /\ MetKey(encountered[k]) \in seen_rows
          /\ \E n \in SheetDataRows :
                /\ SheetKey(n) = MetKey(encountered[k])
                /\ ws[n][6] = NumCell(FirstMet(k).row.danjia)
                /\ ws[n][7] = NumCell(FirstMet(k).row.jine)
    /\ \A n \in SheetDataRows :
          \E k \in 1..Len(encountered) : MetKey(encountered[k]) = SheetKey(n)
    /\ saved.done => saved.sheet = ws

\* Two records with one key and different unit prices, the later one met in
\* the section, the file and the batch given by the flags.
LaterDuplicate(same_file, same_sec) ==
    \E j, k \in 1..Len(encountered) :
        /\ j < k
        /\ MetKey(encountered[j]) = MetKey(encountered[k])
        /\ encountered[j].row.danjia # encountered[k].row.danjia
        /\ (encountered[j].file = encountered[k].file) = same_file
        /\ (encountered[j].sec = encountered[k].sec) = same_sec

\* A saved batch in which a key came back at another price in the same
\* section, in another section of the same file and in another file.
C6_DuplicatesOfAllKinds ==
    /\ saved.done
    /\ LaterDuplicate(TRUE, TRUE)
    /\ LaterDuplicate(TRUE, FALSE)
    /\ LaterDuplicate(FALSE, FALSE)

\* A cell text that is no number: empty, or with a piece that is no digit,
\* point or comma, or with more than one point.
NotANumber(t) ==
    \/ t = Empty
    \/ \E i \in 1..Len(t) : t[i] \notin Digits \cup {".", ","}
    \/ Cardinality({i \in 1..Len(t) : t[i] = "."}) > 1

\* The record that the step appends for row r, if it appends one.
NewRecords ==
    {<<s, k>> \in (1..Len(heap')) \X (1..(MaxRows + AmtRows + 2)) :
        /\ k <= Len(heap'[s].data_rows)
        /\ k > (IF s <= Len(heap) THEN Len(heap[s].data_rows) ELSE 0)}

\* C11: the record appended for a row has as amount the product of the
\* numbers of the row's quantity and unit-price cells (read through the
\* current header map), rounded to 2 decimals; a cell that is empty or no
\* number counts as 0, and the row's amount cell plays no part.
C11_AmountRecomputed ==
    [][AtRow =>
        \A sk \in NewRecords :
            LET rec == heap'[sk[1]].data_rows[sk[2]]
                h == hmaps[header_map]
                qc == CellOf(r, h, "shuliang")
                prc == CellOf(r, h, "danjia")
                qty == IF NotANumber(qc) THEN 0 ELSE safe_float(qc)
                price == IF NotANumber(prc) THEN 0 ELSE safe_float(prc)
            IN  /\ rec.jine = Round2(qty * price, Scale * Scale)
                /\ rec.shuliang = qty
                /\ rec.danjia = Round2(price, Scale)]_vars

\* A grid was scanned whose first data row has a quantity that is no number
\* and an amount cell of 999, and whose second has numbers and an amount cell
\* of 999: the records have the amounts 0 and the product.
C11_AmountCellDisagrees ==
    /\ pc = "done"
    /\ Len(grid) = 3
    /\ grid[1] = RowHeaderAmount
    /\ grid[2][3] = <<"shi">> /\ grid[2][4] = <<"0", ".", "1", "2", "5">>
    /\ grid[2][5] = <<"9", "9", "9">>
    /\ grid[3][3] = <<"2", ".", "5">> /\ grid[3][4] = <<"0", ".", "1", "2", "5">>
    /\ grid[3][5] = <<"9", "9", "9">>
    /\ Len(sections) = 1
    /\ Len(heap[sections[1]].data_rows) = 2
    /\ heap[sections[1]].data_rows[1].jine = 0
    /\ heap[sections[1]].data_rows[2].jine = 310

\* The records met that were the first with their key, and the one that the
\* j-th data row of the sheet, from the top, was written for.
Survivors ==
    {k \in 1..Len(encountered) :
        \A j \in 1..(k - 1) : MetKey(encountered[j]) # MetKey(encountered[k])}
SurvivorOfRow(n) ==
    CHOOSE k \in Survivors :
        Cardinality({j \in Survivors : j <= k}) =
        Cardinality({m \in SheetDataRows : m <= n})

\* C12: the sheet has one data row per surviving record, in the order met;
\* the sequence number of a row is 1 plus the number of surviving records met
\* before it in the same section, so skipped records take no number and each
\* section starts again at 1.
C12_SequenceNumbers ==
    /\ Cardinality(SheetDataRows) = Cardinality(Survivors)
    /\ \A n \in SheetDataRows :
          LET k == SurvivorOfRow(n)
              before == {j \in Survivors :
                            j < k /\ encountered[j].sec = encountered[k].sec}
          IN  /\ ws[n][1] = NumCell(Cardinality(before) + 1)
              /\ ws[n][2] = StrCell(encountered[k].row.pinming)
              /\ SheetKey(n) = MetKey(encountered[k])

\* A saved batch with a section in which a skipped record lies between the
\* records numbered 1 and 2, and a later section whose first record is
\* numbered 1.
C12_SkipBetweenWritten ==
    /\ saved.done
    /\ \E i, j, k \in 1..Len(encountered) :
          /\ i < j /\ j < k
          /\ encountered[i].sec = encountered[j].sec
          /\ encountered[j].sec = encountered[k].sec
          /\ i \in Survivors /\ j \notin Survivors /\ k \in Survivors
          /\ \E n \in SheetDataRows : SurvivorOfRow(n) = k /\ ws[n][1] = NumCell(2)
    /\ \E k \in Survivors :
          /\ encountered[k].sec > 1
          /\ \E n \in SheetDataRows : SurvivorOfRow(n) = k /\ ws[n][1] = NumCell(1)

\* What the export of the files still to come depends on.
ExportState == <<ws, curr_row, seen_rows, encountered, saved>>

\* C13: a file that yields the empty grid gives no section; its iteration of
\* the file loop leaves the sheet, the next free row, the seen keys and the
\* records met as they were, reports progress and moves on to the next file,
\* so what follows is exported as without it.
C13_BadFileSkipped ==
    [][/\ (/\ run_pc = "file" /\ file_idx < Len(files) /\ ~abort
           /\ files[file_idx + 1] = <<>>
           /\ run_pc' # run_pc)
          => /\ run_pc' = "section"
             /\ run_sections' = <<>>
             /\ file_idx' = file_idx
             /\ emitted' = emitted
             /\ ExportState' = ExportState
       /\ (/\ run_pc = "section" /\ file_idx < Len(files)
           /\ files[file_idx + 1] = <<>>
           /\ run_pc' # run_pc)
          => /\ run_pc' = "file"
             /\ file_idx' = file_idx + 1
             /\ Len(emitted') = Len(emitted) + 1
             /\ emitted'[Len(emitted')].sig = "progress"
             /\ ExportState' = ExportState]_vars

\* A saved batch whose first file yielded the empty grid and whose second
\* file gave the sheet its rows.
C13_GoodFileAfterBadFile ==
    /\ saved.done
    /\ Len(files) = 2
    /\ files[1] = <<>>
    /\ files[2] # <<>>
    /\ SheetDataRows # {}
    /\ \A k \in 1..Len(encountered) : encountered[k].file = 2
    /\ \E n \in SheetDataRows : ws[n][1] = NumCell(1) /\ InfoRowAbove(n) = 2

\* The columns (0-based) of the row whose lower-cased cell holds a keyword of
\* field f.
ColumnsOf(f) ==
    {c \in 0..(Len(hdr_row) - 1) :
        \E kw \in mapping_keywords(f) : Contains(Lower(hdr_row[c + 1]), kw)}

\* C14: the map that create_header_map returns holds exactly the fields with
\* a keyword in some cell, each at the leftmost column that holds one of its
\* keywords.
C14_LeftmostColumn ==
    hdr_pc = "return" =>
        \A k \in 1..Len(FieldOrder) :
            LET f == FieldOrder[k]
            IN  /\ f \in DOMAIN hdr_map <=> ColumnsOf(f) # {}
                /\ f \in DOMAIN hdr_map => hdr_map[f] = Min(ColumnsOf(f))

\* A map was returned for a row in which a field has keywords in two columns
\* and another field has none.
C14_KeywordInTwoColumns ==
    /\ hdr_pc = "return"
    /\ \E f \in DOMAIN hdr_map : Cardinality(ColumnsOf(f)) >= 2 /\ hdr_map[f] = 0
    /\ \E k \in 1..Len(FieldOrder) : FieldOrder[k] \notin DOMAIN hdr_map

\* Row r is not a header row and holds an order number that is not the
\* active section's: its scan opens a section.
TriggerRow ==
    /\ AtRow
    /\ ~RowIsHeader(r)
    /\ RowToken(r) # NoMatch
    /\ (current_section = 0 \/ RowToken(r) # heap[current_section].order_no)

\* Row r has an item name under the current header map.
NamedRow ==
    /\ Truthy(Scan)
    /\ CellOf(r, hmaps[header_map], "pinming") # Empty
    /\ CellOf(r, hmaps[header_map], "pinming") \notin Placeholders

\* C15: with a header map, the scan of a trigger row opens a section and,
\* when the row has an item name, leaves that section with exactly one record,
\* made from this row; without an item name the new section has no record.
\* The sections that existed keep their records.
C15_TriggerRowProjected ==
    [][(TriggerRow /\ Truthy(Scan)) =>
        /\ Len(heap') = Len(heap) + 1
        /\ current_section' = Len(heap')
        /\ heap'[Len(heap')].order_no = RowToken(r)
        /\ opened_at'[Len(heap')] = r
        /\ rec_rows'[Len(heap')] = IF NamedRow THEN <<r>> ELSE <<>>
        /\ Len(heap'[Len(heap')].data_rows) = IF NamedRow THEN 1 ELSE 0
        /\ NamedRow =>
              heap'[Len(heap')].data_rows[1].pinming =
                  CellOf(r, hmaps[header_map], "pinming")
        /\ \A s \in 1..Len(heap) :
              /\ heap'[s].data_rows = heap[s].data_rows
              /\ rec_rows'[s] = rec_rows[s]]_vars

\* A trigger row with an item name closed a section that has records: the
\* closed section was returned and the new one starts with the trigger row.
C15_TriggerRowClosesSection ==
    /\ pc = "scan"
    /\ Len(heap) = 2
    /\ sections = <<1>>
    /\ current_section = 2
    /\ ~implicit[2]
    /\ opened_at[2] = Scanned
    /\ rec_rows[2] = <<Scanned>>
    /\ rec_rows[1] # <<>>

\* The run went through every file and no exception was caught.
RanToTheEnd ==
    /\ run_pc = "done"
    /\ file_idx = Len(files)
    /\ \A i \in 1..Len(emitted) : emitted[i].sig # "log"

\* Some file of the batch yields a section.
SomeSection == \E i \in 1..Len(files) : parse_file_to_sections(files[i]) # <<>>

\* C16: a run that went through every file without an exception has saved
\* the workbook, with a data row in it, and emitted finished_signal last when
\* some file yields a section; it has saved nothing and emitted
\* stopped_signal last when no file yields one.
C16_OutputIffSomeSection ==
    RanToTheEnd =>
        IF SomeSection
        THEN /\ saved.done
             /\ emitted[Len(emitted)].sig = "finished"
             /\ \E n \in DOMAIN saved.sheet : n > 1 /\ saved.sheet[n][1][1] = "num"
        ELSE /\ ~saved.done
             /\ emitted[Len(emitted)].sig = "stopped"

\* A run to the end, saved, whose last section had every record skipped as a
\* duplicate.
C16_LastSectionAllDuplicates ==
    /\ RanToTheEnd
    /\ saved.done
    /\ sec_no >= 2
    /\ \E k \in 1..Len(encountered) : encountered[k].sec = sec_no
    /\ \A k \in 1..Len(encountered) : encountered[k].sec = sec_no => k \notin Survivors

\* The records of the sections of a file, in order, as the export meets them.
RECURSIVE RecordsOf(_, _)
RecordsOf(secs, dtype) ==
    IF secs = <<>> THEN <<>>
    ELSE [j \in 1..Len(Head(secs).data_rows) |->
             [order_no |-> Head(secs).order_no,
              row |-> iter_row(dtype, Head(secs), Head(secs).data_rows[j])]]
         \o RecordsOf(Tail(secs), dtype)

\* The records met in file i of the batch.
MetInFile(i) ==
    LET of_file == SelectSeq(encountered, LAMBDA e : e.file = i)
    IN  [k \in 1..Len(of_file) |->
            [order_no |-> of_file[k].order_no, row |-> of_file[k].row]]

\* Progress was reported for the file with 0-based index i.
Reported(i) ==
    \E k \in 1..Len(emitted) : emitted[k].sig = "progress" /\ emitted[k].idx = i

\* stop() changes the flag and nothing else.
StopSetsFlagOnly ==
    abort' # abort =>
        /\ abort'
        /\ UNCHANGED <<files, run_pc, file_idx, run_sections, section, row_iter,
                       seen_rows, ws, curr_row, start_row, written_count,
                       emitted, saved, encountered>>

\* The flag seen set at the head of a file's iteration ends the file loop.
BreakAtCheck ==
    (run_pc = "file" /\ file_idx < Len(files) /\ abort /\ run_pc' # run_pc)
        => /\ run_pc' = "after"
           /\ UNCHANGED <<file_idx, run_sections, ws, curr_row, seen_rows,
                          encountered, emitted>>

\* After the file loop no file is parsed and no record is met.
NoParseAfterLoop ==
    run_pc \in {"after", "done"} =>
        UNCHANGED <<file_idx, run_sections, row_iter, ws, encountered, seen_rows>>

\* Between files and after the loop: nothing of a started file is pending,
\* every started file had all records of all its sections met, and no record
\* of another file was met.
StartedFilesComplete ==
    run_pc \in {"file", "after", "done"} =>
        /\ run_sections = <<>>
        /\ row_iter = <<>>
        /\ \A i \in 1..Len(files) :
              MetInFile(i) =
                  IF i <= file_idx
                  THEN RecordsOf(parse_file_to_sections(files[i]), frame_dtype)
                  ELSE <<>>
        /\ \A i \in 0..(Len(files) - 1) : Reported(i) <=> i < file_idx

\* C17: stop() only sets the flag; the flag is acted on only at the head of a
\* file's iteration, where it ends the loop so that this file and the later
\* ones are never parsed; a file whose iteration has started is exported to
\* its last record and reported, whenever the flag is set.
C17_CancelBetweenFiles ==
    /\ [][StopSetsFlagOnly /\ BreakAtCheck /\ NoParseAfterLoop]_vars
    /\ []StartedFilesComplete
    /\ \A i \in 0..(MaxFiles - 1) :
          (run_pc = "section" /\ file_idx = i) ~> Reported(i)

\* stop() was called while the first file's records were being written; the
\* file was exported to the end, the second file was not parsed, and the
\* workbook was saved.
C17_StoppedInsideFirstFile ==
    /\ run_pc = "done"
    /\ abort
    /\ saved.done
    /\ Len(files) = 2
    /\ file_idx = 1
    /\ files[2] # <<>>
    /\ Len(emitted) = 2
    /\ encountered # <<>>

\* The records of the returned sections, as pairs of a position in the
\* result and a position in that section.
ReturnedRecords ==
    {<<a, k>> \in (1..Len(sections)) \X (1..(MaxRows + AmtRows + 2)) :
        k <= Len(heap[sections[a]].data_rows)}

\* C18: when the scan is done, no section is returned twice, the records of
\* the returned sections correspond one to one to the item rows of the grid,
\* a record holds its row's item name, the records of a section are in row
\* order, and the number of records is the number of item rows.
C18_OneRecordPerItemRow ==
    pc = "done" =>
        /\ \A a, b \in 1..Len(sections) : sections[a] = sections[b] => a = b
        /\ \A a \in 1..Len(sections) :
              Len(rec_rows[sections[a]]) = Len(heap[sections[a]].data_rows)
        /\ \A ak \in ReturnedRecords :
              LET i == rec_rows[sections[ak[1]]][ak[2]]
              IN  /\ i \in ItemRows
                  /\ heap[sections[ak[1]]].data_rows[ak[2]].pinming = Strip(grid[i][
                         create_header_map(StripRow(grid[
                             Max({h \in 1..(i - 1) : HeaderLike(h)})])).pinming + 1])
        /\ \A i \in ItemRows :
              Cardinality({ak \in ReturnedRecords :
                              rec_rows[sections[ak[1]]][ak[2]] = i}) = 1
        /\ \A ak, bm \in ReturnedRecords :
              (ak[1] = bm[1] /\ ak[2] < bm[2]) =>
                  rec_rows[sections[ak[1]]][ak[2]] < rec_rows[sections[bm[1]]][bm[2]]
        /\ Cardinality(ReturnedRecords) = Cardinality(ItemRows)

\* A grid of three item rows was scanned into two returned sections, the
\* first of them closed by the order number of the second.
C18_ThreeItemRowsTwoSections ==
    /\ pc = "done"
    /\ Cardinality(ItemRows) = 3
    /\ Len(sections) = 2
    /\ Len(heap[sections[1]].data_rows) = 2
    /\ Len(heap[sections[2]].data_rows) = 1

\* The rows of the saved sheet that hold a section's date/info/order-number
\* line, and those that hold a record.
SavedInfoRows ==
    {n \in DOMAIN saved.sheet : n > 1 /\ saved.sheet[n][1][1] = "str"}
SavedDataRows ==
    {n \in DOMAIN saved.sheet : n > 1 /\ saved.sheet[n][1][1] = "num"}

\* C19: in the saved workbook every date/info/order-number line is the line
\* of a section with a written record, which stands in the row below it; a
\* section whose records were all skipped has left no line.  (Stated as
\* claimed; the code violates it when such a section is the last one.)
C19_NoLineWithoutRecords ==
    saved.done => \A n \in SavedInfoRows : (n + 1) \in SavedDataRows

\* The terminal signals emitted so far.
TerminalSignals ==
    {k \in 1..Len(emitted) : emitted[k].sig \in {"finished", "stopped"}}

\* C20: run() never emits a second terminal signal; it has returned exactly
\* when one was emitted, which is then the last signal, and nothing is
\* emitted after; the button stays disabled until then; every run returns
\* and the button is enabled again and stays so.
C20_OneTerminalSignal ==
    /\ [](/\ Cardinality(TerminalSignals) <= 1
          /\ run_pc = "done" <=> TerminalSignals = {Len(emitted)}
          /\ run_pc = "done" <=> TerminalSignals # {}
          /\ btn_run => run_pc = "done")
    /\ [][run_pc = "done" => emitted' = emitted]_vars
    /\ <>(run_pc = "done")
    /\ <>[]btn_run

\* An exception was raised while the records of a section were written,
\* after stop() was called; stopped_signal was emitted and the button is
\* enabled again.
C20_ExceptionInsideSection ==
    /\ run_pc = "done"
    /\ row_iter # <<>>
    /\ encountered # <<>>
    /\ abort
    /\ emitted[Len(emitted)].sig = "stopped"
    /\ btn_run

=========================================================================
